---- MODULE Spec2Model ----
(***************************************************************************)
(* Model of the Redis resharding proxy (main.go).                          *)
(*                                                                         *)
(* A byte is a one-character string; a byte string (a Go string or         *)
(* []byte) is a sequence of bytes.  Every session runs four goroutines:    *)
(* slaveReader, slaveWriter, masterConnection and masterWriter, wired by   *)
(* the two buffered channels slavechannel and masterchannel.               *)
(***************************************************************************)
EXTENDS Integers, Sequences, FiniteSets, TLC

(***************************************************************************)
(* Bounds of the model.                                                    *)
(***************************************************************************)
\* Slots of each buffered channel.  The program uses 100 (main.go:26); the
\* model runs with a small capacity so that a full channel is reachable.
channelBuffer == 1

\* Sessions the accept loop may create.
MaxSessions == 2

\* The number of segments each peer sends in a traced run.
MaxTraced == 2

(***************************************************************************)
(* Bytes and byte strings.                                                 *)
(***************************************************************************)
CR == "\r"
LF == "\n"
CRLF == <<CR, LF>>

Digits == <<"0", "1", "2", "3", "4", "5", "6", "7", "8", "9">>

IsDigit(b) == \E i \in 1..10 : Digits[i] = b

DigitVal(b) == (CHOOSE i \in 1..10 : Digits[i] = b) - 1

IsSpace(b) == b \in {" ", "\t", CR, LF}

Drop(s, n) == SubSeq(s, n + 1, Len(s))

Take(s, n) == SubSeq(s, 1, n)

\* strings.HasPrefix(s, p) for a one-byte prefix p
HasPrefix(s, p) == Len(s) >= 1 /\ s[1] = p

\* strings.TrimSpace
TrimSpace(s) ==
    LET NS == {i \in 1..Len(s) : ~IsSpace(s[i])}
    IN  IF NS = {} THEN <<>>
        ELSE LET lo == CHOOSE i \in NS : \A j \in NS : i <= j
                 hi == CHOOSE i \in NS : \A j \in NS : j <= i
             IN  SubSeq(s, lo, hi)

RECURSIVE DigitsValue(_)
DigitsValue(s) ==
    IF s = <<>> THEN 0
    ELSE 10 * DigitsValue(Take(s, Len(s) - 1)) + DigitVal(s[Len(s)])

\* strconv.Atoi / strconv.ParseInt(s, 10, 64): an optional sign and at least
\* one decimal digit, nothing else.
AtoiOk(s) ==
    LET body == IF Len(s) >= 1 /\ s[1] \in {"+", "-"} THEN Drop(s, 1) ELSE s
    IN  /\ Len(body) >= 1
        /\ \A i \in 1..Len(body) : IsDigit(body[i])

Atoi(s) ==
    IF Len(s) >= 1 /\ s[1] = "-" THEN 0 - DigitsValue(Drop(s, 1))
    ELSE IF Len(s) >= 1 /\ s[1] = "+" THEN DigitsValue(Drop(s, 1))
    ELSE DigitsValue(s)

\* bufio.Reader.ReadString('\n') on the bytes `in` still to come.  `eof` says
\* that no byte will follow them (the peer closed, or the socket is closed).
\*   st = "ok"    : a line through the first LF was read
\*   st = "err"   : the stream ended before an LF (the partial line is returned
\*                  together with the error)
\*   st = "wait"  : the read blocks for more bytes
ReadString(in, eof) ==
    LET S == {i \in 1..Len(in) : in[i] = LF}
    IN  IF S # {}
        THEN LET n == CHOOSE i \in S : \A j \in S : i <= j
             IN  [st |-> "ok", line |-> Take(in, n), rest |-> Drop(in, n)]
        ELSE IF eof
        THEN [st |-> "err", line |-> in, rest |-> <<>>]
        ELSE [st |-> "wait", line |-> <<>>, rest |-> in]

(***************************************************************************)
(* redisCommand and readRedisCommand.                                      *)
(***************************************************************************)
\* The struct redisCommand.  Go's nil slice and the empty slice differ
\* (command == nil), so the slice carries isNil.
redisCommand(raw, isNil, command, reply, bulkSize) ==
    [raw |-> raw, isNil |-> isNil, command |-> command, reply |-> reply,
     bulkSize |-> bulkSize]

\* Results of readRedisCommand:
\*   "ok"    : (command, nil); rest is what the reader has not consumed
\*   "err"   : (nil, err)
\*   "nil"   : (nil, nil), the return of line 74 when the read succeeded
\*   "panic" : a run-time panic inside the function (make with a negative size)
\*   "wait"  : the call blocks in a read
Result(st, cmd, rest) == [st |-> st, cmd |-> cmd, rest |-> rest]

NoCommand == redisCommand(<<>>, TRUE, <<>>, <<>>, 0)

Failure(st) == Result(st, NoCommand, <<>>)

\* One pass of the loop of lines 70-112 on the bytes `in`: the argument's
\* header line, its payload and the line that ends it.  head is what lines 77
\* and 101 append to raw, trailer what line 109 appends.
Argument(st, head, trailer, argument, rest) ==
    [st |-> st, head |-> head, trailer |-> trailer, argument |-> argument,
     rest |-> rest]

NoArgument(st) == Argument(st, <<>>, <<>>, <<>>, <<>>)

ReadArgument(in, eof) ==
    LET h == ReadString(in, eof)
    IN  IF h.st = "wait" THEN NoArgument("wait")
        ELSE IF h.st = "err" THEN NoArgument("err")
        ELSE IF ~HasPrefix(h.line, "$") THEN NoArgument("nil")
        ELSE IF ~AtoiOk(TrimSpace(Drop(h.line, 1))) THEN NoArgument("err")
        ELSE
        LET argSize == Atoi(TrimSpace(Drop(h.line, 1)))
        IN  IF argSize < 0 THEN NoArgument("panic")
            ELSE IF Len(h.rest) < argSize
            THEN NoArgument(IF eof THEN "err" ELSE "wait")
            ELSE
            LET t == ReadString(Drop(h.rest, argSize), eof)
            IN  IF t.st = "wait" THEN NoArgument("wait")
                ELSE IF t.st = "err" THEN NoArgument("err")
                ELSE Argument("ok", h.line \o Take(h.rest, argSize), t.line,
                              Take(h.rest, argSize), t.rest)

\* ReadArguments without line 109: the line after the payload is read but
\* not appended to raw.
RECURSIVE ReadArgumentsNoTrailer(_, _, _, _, _)
ReadArgumentsNoTrailer(in, eof, left, raw, command) ==
    IF left = 0 THEN Result("ok", redisCommand(raw, FALSE, command, <<>>, 0), in)
    ELSE LET a == ReadArgument(in, eof)
         IN  IF a.st # "ok" THEN Failure(a.st)
             ELSE ReadArgumentsNoTrailer(a.rest, eof, left - 1, raw \o a.head,
                     Append(command, a.argument))

\* The loop of lines 70-112: the i-th argument onward, with raw and command as
\* accumulated so far.
RECURSIVE ReadArguments(_, _, _, _, _)
ReadArguments(in, eof, left, raw, command) ==
    IF left = 0 THEN Result("ok", redisCommand(raw, FALSE, command, <<>>, 0), in)
    ELSE LET a == ReadArgument(in, eof)
         IN  IF a.st # "ok" THEN Failure(a.st)
             ELSE ReadArguments(a.rest, eof, left - 1, raw \o a.head \o a.trailer,
                     Append(command, a.argument))

readRedisCommand(in, eof) ==
    LET h == ReadString(in, eof)
        header == h.line
    IN  IF h.st = "wait" THEN Failure("wait")
        ELSE IF h.st = "err" THEN Failure("err")
        ELSE IF header = <<LF>> \/ header = CRLF
        THEN Result("ok", redisCommand(header, TRUE, <<>>, <<>>, 0), h.rest)
        ELSE IF HasPrefix(header, "+")
        THEN Result("ok", redisCommand(header, TRUE, <<>>,
                                       TrimSpace(Drop(header, 1)), 0), h.rest)
        ELSE IF HasPrefix(header, "$")
        THEN IF ~AtoiOk(TrimSpace(Drop(header, 1))) THEN Failure("err")
             ELSE Result("ok", redisCommand(header, TRUE, <<>>, <<>>,
                                            Atoi(TrimSpace(Drop(header, 1)))),
                         h.rest)
        ELSE IF HasPrefix(header, "*")
        THEN IF ~AtoiOk(TrimSpace(Drop(header, 1))) THEN Failure("err")
             ELSE LET cmdSize == Atoi(TrimSpace(Drop(header, 1)))
                  IN  IF cmdSize < 0 THEN Failure("panic")
                      ELSE ReadArguments(h.rest, eof, cmdSize, header, <<>>)
        ELSE Result("ok", redisCommand(header, FALSE, <<TrimSpace(header)>>,
                                       <<>>, 0), h.rest)

(***************************************************************************)
(* The key predicate and the two classifiers.                              *)
(***************************************************************************)
\* keyRegexp.FindStringIndex(key) != nil.  A compiled expression is modelled
\* by a literal and whether it is anchored at the start of the key ("^lit");
\* an unanchored expression matches anywhere in the key.
FindStringIndex(re, key) ==
    LET n == Len(re.lit)
    IN  IF re.anchored
        THEN Len(key) >= n /\ Take(key, n) = re.lit
        ELSE \E i \in 0..(Len(key) - n) : SubSeq(key, i + 1, i + n) = re.lit

PING == <<"P", "I", "N", "G">>
SYNC == <<"S", "Y", "N", "C">>
REPLCONF == <<"R", "E", "P", "L", "C", "O", "N", "F">>
ACK == <<"A", "C", "K">>

\* The reply the slave gets for a command the proxy does not relay (line 239).
UnknownCommandReply ==
    <<"+", "E", "R", "R", " ", "u", "n", "k", "n", "o", "w", "n", " ",
      "c", "o", "m", "m", "a", "n", "d", CR, LF>>

\* The test shared by both readers (lines 153 and 222).
IsPassthrough(cmd) == cmd.reply # <<>> \/ (cmd.isNil /\ cmd.bulkSize = 0)

IsSingle(cmd, verb) == Len(cmd.command) = 1 /\ cmd.command[1] = verb

\* MasterDecision without the key test of line 175.
MasterDecisionNoFilter(cmd, re) ==
    IF IsPassthrough(cmd) THEN "forward"
    ELSE IF IsSingle(cmd, PING) THEN "forward"
    ELSE IF cmd.bulkSize > 0 THEN "bulk"
    ELSE "forward"

\* MasterDecision with the key test of line 175 on the first argument.
MasterDecisionKeyFirst(cmd, re) ==
    IF IsPassthrough(cmd) THEN "forward"
    ELSE IF IsSingle(cmd, PING) THEN "forward"
    ELSE IF cmd.bulkSize > 0 THEN "bulk"
    ELSE IF Len(cmd.command) >= 1 /\ ~FindStringIndex(re, cmd.command[1])
    THEN "drop"
    ELSE "forward"

\* The if-chain of masterConnection (lines 153-180):
\*   "forward" : slavechannel <- command.raw
\*   "bulk"    : slavechannel <- command.raw, then FilterRDB
\*   "drop"    : continue
MasterDecision(cmd, re) ==
    IF IsPassthrough(cmd) THEN "forward"
    ELSE IF IsSingle(cmd, PING) THEN "forward"
    ELSE IF cmd.bulkSize > 0 THEN "bulk"
    ELSE IF Len(cmd.command) >= 2 /\ ~FindStringIndex(re, cmd.command[2])
    THEN "drop"
    ELSE "forward"

\* The if-chain of slaveReader (lines 222-240):
\*   "forward" : masterchannel <- command.raw
\*   "unknown" : slavechannel <- "+ERR unknown command\r\n"
SlaveDecision(cmd) ==
    IF IsPassthrough(cmd) THEN "forward"
    ELSE IF IsSingle(cmd, PING) THEN "forward"
    ELSE IF IsSingle(cmd, SYNC) THEN "forward"
    ELSE IF Len(cmd.command) = 3 /\ cmd.command[1] = REPLCONF
                                  /\ cmd.command[2] = ACK
    THEN "forward"
    ELSE "unknown"

(***************************************************************************)
(* The snapshot filter FilterRDB.  Its source is not part of main.go; it   *)
(* is modelled from the specification (sections 4.4.1 - 4.4.7): a header   *)
(* of "REDIS" and four version bytes, then records, each led by an opcode  *)
(* byte, then EOF and an 8-byte trailer.  Bytes above 0x7F and the small   *)
(* binary values are written as two hex digits.  Of the length codings     *)
(* only the 6-bit form is modelled, and of the value types only the plain  *)
(* string (0), list (1) and set (2); any other byte is rejected.           *)
(***************************************************************************)
LengthBytes == <<"00", "01", "02", "03", "04", "05", "06", "07", "08", "09">>

IsLengthByte(b) == \E i \in 1..Len(LengthBytes) : LengthBytes[i] = b

LengthVal(b) == (CHOOSE i \in 1..Len(LengthBytes) : LengthBytes[i] = b) - 1

RdbMagic == <<"R", "E", "D", "I", "S">>

\* Parsers work on the window w the counted reader can deliver and return
\* st = "ok" with the index `next` of the first byte not consumed, "short"
\* when the window ends too early, or "bad" on a byte that cannot be decoded.
Parsed(st, next, val) == [st |-> st, next |-> next, val |-> val]

\* 4.4.2, 6-bit form: the length is the byte itself.
RdbLength(w, p) ==
    IF p > Len(w) THEN Parsed("short", p, 0)
    ELSE IF ~IsLengthByte(w[p]) THEN Parsed("bad", p, 0)
    ELSE Parsed("ok", p + 1, LengthVal(w[p]))

\* 4.4.3, length-prefixed raw bytes: val is the decoded string.
RdbString(w, p) ==
    LET l == RdbLength(w, p)
    IN  IF l.st # "ok" THEN Parsed(l.st, p, <<>>)
        ELSE IF l.next + l.val - 1 > Len(w) THEN Parsed("short", p, <<>>)
        ELSE Parsed("ok", l.next + l.val, SubSeq(w, l.next, l.next + l.val - 1))

RECURSIVE RdbStrings(_, _, _)
RdbStrings(w, p, n) ==
    IF n = 0 THEN Parsed("ok", p, <<>>)
    ELSE LET s == RdbString(w, p)
         IN  IF s.st # "ok" THEN Parsed(s.st, p, <<>>)
             ELSE RdbStrings(w, s.next, n - 1)

\* A length L and then L strings (4.4.5, plain list and set).
RdbStringList(w, p) ==
    LET l == RdbLength(w, p)
    IN  IF l.st # "ok" THEN Parsed(l.st, p, <<>>)
        ELSE RdbStrings(w, l.next, l.val)

\* n bytes of fixed width (the expiry times).
RdbFixed(w, p, n) ==
    IF p + n - 1 > Len(w) THEN Parsed("short", p, <<>>)
    ELSE Parsed("ok", p + n, <<>>)

\* The records (4.4.4, 4.4.5): the kind of the record an opcode leads, and
\* the fields that follow the opcode.
Layout(kind, fields) == [kind |-> kind, fields |-> fields]

RdbLayout(op) ==
    IF op = "FA" THEN Layout("aux", <<"string", "string">>)
    ELSE IF op = "FB" THEN Layout("resize", <<"length", "length">>)
    ELSE IF op = "FC" THEN Layout("expiry", <<"fixed8">>)
    ELSE IF op = "FD" THEN Layout("expiry", <<"fixed4">>)
    ELSE IF op = "FE" THEN Layout("select", <<"length">>)
    ELSE IF op = "FF" THEN Layout("eof", <<>>)
    ELSE IF op = "00" THEN Layout("entry", <<"key", "string">>)
    ELSE IF op \in {"01", "02"} THEN Layout("entry", <<"key", "strings">>)
    ELSE Layout("unknown", <<>>)

RdbField(w, p, field) ==
    IF field = "length" THEN RdbLength(w, p)
    ELSE IF field = "fixed8" THEN RdbFixed(w, p, 8)
    ELSE IF field = "fixed4" THEN RdbFixed(w, p, 4)
    ELSE IF field = "strings" THEN RdbStringList(w, p)
    ELSE RdbString(w, p)

\* The fields of a record from index p on; val is the decoded key, if any.
RECURSIVE RdbFields(_, _, _, _)
RdbFields(w, p, fields, key) ==
    IF fields = <<>> THEN Parsed("ok", p, key)
    ELSE LET r == RdbField(w, p, Head(fields))
         IN  IF r.st # "ok" THEN Parsed(r.st, p, <<>>)
             ELSE RdbFields(w, r.next, Tail(fields),
                            IF Head(fields) = "key" THEN r.val ELSE key)

\* One record at the start of w: its kind, the index after it and, for an
\* entry, the decoded key.
Record(st, kind, next, key) ==
    [st |-> st, kind |-> kind, next |-> next, key |-> key]

RecordOf(kind, r) == Record(r.st, kind, r.next, r.val)

RdbRecord(w) ==
    IF w = <<>> THEN Record("short", "", 1, <<>>)
    ELSE IF RdbLayout(w[1]).kind = "unknown" THEN Record("bad", "", 1, <<>>)
    ELSE RecordOf(RdbLayout(w[1]).kind,
                  RdbFields(w, 2, RdbLayout(w[1]).fields, <<>>))

\* The state of a running filter: where it is in the snapshot, the counter
\* of the counted reader (4.4.1), the staged bytes of a pending expiry
\* (4.4.4) and the chunk it is about to send.
FilterState(phase, remaining, expiry, out) ==
    [phase |-> phase, remaining |-> remaining, expiry |-> expiry, out |-> out]

NoFilter == FilterState("off", 0, <<>>, <<>>)

\* One step of the filter on the bytes `in` still to come:
\*   st = "ok"   : n bytes consumed, filter state f (f.out # <<>> is sent next)
\*   st = "err"  : FilterRDB returns an error
\*   st = "wait" : the filter blocks in a read
Stepped(st, n, f) == [st |-> st, n |-> n, f |-> f]

\* The header: "REDIS" and four version bytes, sent on as they are.
FilterHeader(in, short, f) ==
    IF f.remaining < 9 THEN Stepped("err", 0, f)
    ELSE IF Len(in) < 9 THEN Stepped(short, 0, f)
    ELSE IF Take(in, 5) # RdbMagic THEN Stepped("err", 0, f)
    ELSE Stepped("ok", 9, FilterState("records", f.remaining - 9, <<>>, Take(in, 9)))

\* A filter that lets every entry through, whatever its key.
FilterRecordKeepAll(f, r, bytes, re) ==
    IF r.kind = "expiry"
    THEN Stepped("ok", Len(bytes),
                 FilterState("records", f.remaining - Len(bytes), bytes, <<>>))
    ELSE Stepped("ok", Len(bytes),
                 FilterState(IF r.kind = "eof" THEN "crc" ELSE "records",
                             f.remaining - Len(bytes), <<>>, f.expiry \o bytes))

\* The record r, whose bytes are `bytes` (4.4.4, 4.4.6): an expiry is staged,
\* an entry is sent with its staged expiry if its key matches and dropped with
\* it otherwise, anything else is sent on; a record other than an entry while
\* an expiry is staged is an error.
FilterRecord(f, r, bytes, re) ==
    IF r.kind = "expiry"
    THEN IF f.expiry # <<>> THEN Stepped("err", 0, f)
         ELSE Stepped("ok", Len(bytes),
                      FilterState("records", f.remaining - Len(bytes), bytes, <<>>))
    ELSE IF r.kind = "entry"
    THEN Stepped("ok", Len(bytes),
                 FilterState("records", f.remaining - Len(bytes), <<>>,
                             IF FindStringIndex(re, r.key)
                             THEN f.expiry \o bytes ELSE <<>>))
    ELSE IF f.expiry # <<>> THEN Stepped("err", 0, f)
    ELSE Stepped("ok", Len(bytes),
                 FilterState(IF r.kind = "eof" THEN "crc" ELSE "records",
                             f.remaining - Len(bytes), <<>>, bytes))

\* The next record, read from the window w; `capped` says that the window
\* ends where the counted reader stops (4.4.1).
FilterWindow(w, r, capped, short, f, re) ==
    IF r.st = "bad" THEN Stepped("err", 0, f)
    ELSE IF r.st = "short" THEN Stepped(IF capped THEN "err" ELSE short, 0, f)
    ELSE FilterRecord(f, r, Take(w, r.next - 1), re)

FilterRecords(in, short, f, re) ==
    IF Len(in) >= f.remaining
    THEN FilterWindow(Take(in, f.remaining), RdbRecord(Take(in, f.remaining)),
                      TRUE, short, f, re)
    ELSE FilterWindow(in, RdbRecord(in), FALSE, short, f, re)

\* After EOF the counter must be zero (4.4.7); the trailer is sent on.
FilterTrailer(in, short, f) ==
    IF f.remaining # 0 THEN Stepped("err", 0, f)
    ELSE IF Len(in) < 8 THEN Stepped(short, 0, f)
    ELSE Stepped("ok", 8, FilterState("end", 0, <<>>, Take(in, 8)))

FilterStep(in, eof, f, re) ==
    IF f.phase = "header" THEN FilterHeader(in, IF eof THEN "err" ELSE "wait", f)
    ELSE IF f.phase = "records"
    THEN FilterRecords(in, IF eof THEN "err" ELSE "wait", f, re)
    ELSE FilterTrailer(in, IF eof THEN "err" ELSE "wait", f)

(***************************************************************************)
(* State.                                                                  *)
(***************************************************************************)
VARIABLES
    keyRegexp,      \* the compiled key expression (global, set once by main)
    aborted,        \* the process died of an unrecovered panic
    sr_pc,          \* slaveReader:      idle, read, send_master, send_slave, done
    sw_pc,          \* slaveWriter:      idle, range, returned, failed
    mr_pc,          \* masterConnection: idle, dial, read, send, send_bulk, rdb,
                    \*                   rdb_send, dial_failed, read_failed,
                    \*                   rdb_failed
    mw_pc,          \* masterWriter:     idle, range, returned, failed
    slaveConn,      \* the accepted socket:   none, open, closed (by the proxy)
    masterConn,     \* the dialled socket:    none, open, closed (by the proxy)
    slavePeer,      \* the replica's end:     open, closed
    masterPeer,     \* the primary's end:     open, closed
    slaveStalled,   \* the replica stopped reading: writes to it block
    slaveIn,        \* bytes sent by the replica, not yet read by slaveReader
    masterIn,       \* bytes sent by the primary, not yet read by masterConnection
    slavechannel,   \* [buf, closed]
    masterchannel,  \* [buf, closed]
    sCommand,       \* slaveReader's `command`, declared in its loop body
    mCommand,       \* masterConnection's `command`, declared in its loop body
    rdb,            \* the state of FilterRDB while it runs
    hist            \* what an observer of a traced run has seen so far

vars == <<keyRegexp, aborted, sr_pc, sw_pc, mr_pc, mw_pc, slaveConn, masterConn,
          slavePeer, masterPeer, slaveStalled, slaveIn, masterIn, slavechannel,
          masterchannel, sCommand, mCommand, rdb, hist>>

Sessions == 1..MaxSessions

\* make(chan []byte, channelBuffer)
NewChannel == [buf |-> <<>>, closed |-> FALSE]

\* A channel that takes one chunk more than its capacity.
HasRoomPlusOne(ch) == Len(ch.buf) < channelBuffer + 1

\* A send can complete when a slot is free.
HasRoom(ch) == Len(ch.buf) < channelBuffer

\* A send that puts the chunk into the channel twice.
EnqueueTwice(ch, data) == [ch EXCEPT !.buf = Append(Append(@, data), data)]

Enqueue(ch, data) == [ch EXCEPT !.buf = Append(@, data)]

\* The expressions the proxy may be started with: "^k" and "b".
Patterns == {[anchored |-> TRUE, lit |-> <<"k">>],
             [anchored |-> FALSE, lit |-> <<"b">>]}

\* The observer's record.  In a traced run (on) it holds, for each session,
\* the segments each peer has sent, the chunks sent on each channel with the
\* goroutine that sent them, and the chunks each writer has written to its
\* socket.  In a run that is not traced it stays empty.
NoTrace(on) ==
    [on |-> on,
     primarySent |-> [s \in Sessions |-> <<>>],
     replicaSent |-> [s \in Sessions |-> <<>>],
     slaveEnq |-> [s \in Sessions |-> <<>>],
     masterEnq |-> [s \in Sessions |-> <<>>],
     slaveOut |-> [s \in Sessions |-> <<>>],
     masterOut |-> [s \in Sessions |-> <<>>]]

Traced(field, s, item) ==
    IF hist.on THEN [hist EXCEPT ![field][s] = Append(@, item)] ELSE hist

Sent(by, data) == [by |-> by, data |-> data]

\* The state after main has parsed its arguments, before any connection.
Start(on) ==
    /\ keyRegexp \in Patterns
    /\ aborted = FALSE
    /\ sr_pc = [s \in Sessions |-> "idle"]
    /\ sw_pc = [s \in Sessions |-> "idle"]
    /\ mr_pc = [s \in Sessions |-> "idle"]
    /\ mw_pc = [s \in Sessions |-> "idle"]
    /\ slaveConn = [s \in Sessions |-> "none"]
    /\ masterConn = [s \in Sessions |-> "none"]
    /\ slavePeer = [s \in Sessions |-> "open"]
    /\ masterPeer = [s \in Sessions |-> "open"]
    /\ slaveStalled = [s \in Sessions |-> FALSE]
    /\ slaveIn = [s \in Sessions |-> <<>>]
    /\ masterIn = [s \in Sessions |-> <<>>]
    /\ slavechannel = [s \in Sessions |-> NewChannel]
    /\ masterchannel = [s \in Sessions |-> NewChannel]
    /\ sCommand = [s \in Sessions |-> NoCommand]
    /\ mCommand = [s \in Sessions |-> NoCommand]
    /\ rdb = [s \in Sessions |-> NoFilter]
    /\ hist = NoTrace(on)

Init == Start(FALSE)

(***************************************************************************)
(* main's accept loop and slaveReader's start.                             *)
(***************************************************************************)
\* ln.Accept() and `go slaveReader(conn)`, then slaveReader up to its loop:
\* both channels are made, slaveWriter and masterConnection are started.
\* Connections are numbered in the order they are accepted.
Accept(s) ==
    /\ ~aborted
    /\ sr_pc[s] = "idle"
    /\ \A o \in Sessions : o < s => sr_pc[o] # "idle"
    /\ sr_pc' = [sr_pc EXCEPT ![s] = "read"]
    /\ sw_pc' = [sw_pc EXCEPT ![s] = "range"]
    /\ mr_pc' = [mr_pc EXCEPT ![s] = "dial"]
    /\ slaveConn' = [slaveConn EXCEPT ![s] = "open"]
    /\ UNCHANGED <<keyRegexp, hist, aborted, mw_pc, masterConn, slavePeer, masterPeer,
                   slaveStalled, slaveIn, masterIn, slavechannel, masterchannel,
                   sCommand, mCommand, rdb>>

(***************************************************************************)
(* The peers.                                                              *)
(***************************************************************************)
\* The replica sends a segment.  A segment is visible to the proxy only in a
\* read of slaveReader, so its arrival is placed where slaveReader waits in
\* one and has nothing buffered.
ReplicaSend(s, seg) ==
    /\ ~aborted
    /\ slaveConn[s] = "open" /\ slavePeer[s] = "open"
    /\ sr_pc[s] = "read" /\ slaveIn[s] = <<>>
    /\ slaveIn' = [slaveIn EXCEPT ![s] = seg]
    /\ hist' = Traced("replicaSent", s, seg)
    /\ UNCHANGED <<keyRegexp, aborted, sr_pc, sw_pc, mr_pc, mw_pc, slaveConn,
                   masterConn, slavePeer, masterPeer, slaveStalled, masterIn,
                   slavechannel, masterchannel, sCommand, mCommand, rdb>>

\* The replica closes its end.
ReplicaClose(s) ==
    /\ ~aborted
    /\ slaveConn[s] = "open" /\ slavePeer[s] = "open"
    /\ slavePeer' = [slavePeer EXCEPT ![s] = "closed"]
    /\ UNCHANGED <<keyRegexp, hist, aborted, sr_pc, sw_pc, mr_pc, mw_pc, slaveConn,
                   masterConn, masterPeer, slaveStalled, slaveIn, masterIn,
                   slavechannel, masterchannel, sCommand, mCommand, rdb>>

\* The replica stops reading from its socket for good: conn.Write blocks.
ReplicaStall(s) ==
    /\ ~aborted
    /\ slaveConn[s] = "open" /\ slavePeer[s] = "open"
    /\ ~slaveStalled[s]
    /\ slaveStalled' = [slaveStalled EXCEPT ![s] = TRUE]
    /\ UNCHANGED <<keyRegexp, hist, aborted, sr_pc, sw_pc, mr_pc, mw_pc, slaveConn,
                   masterConn, slavePeer, masterPeer, slaveIn, masterIn,
                   slavechannel, masterchannel, sCommand, mCommand, rdb>>

\* The primary sends a segment, likewise where masterConnection (or the
\* filter it runs) waits in a read.
PrimarySend(s, seg) ==
    /\ ~aborted
    /\ masterConn[s] = "open" /\ masterPeer[s] = "open"
    /\ mr_pc[s] \in {"read", "rdb"} /\ masterIn[s] = <<>>
    /\ masterIn' = [masterIn EXCEPT ![s] = seg]
    /\ hist' = Traced("primarySent", s, seg)
    /\ UNCHANGED <<keyRegexp, aborted, sr_pc, sw_pc, mr_pc, mw_pc, slaveConn,
                   masterConn, slavePeer, masterPeer, slaveStalled, slaveIn,
                   slavechannel, masterchannel, sCommand, mCommand, rdb>>

\* The primary closes its end.
PrimaryClose(s) ==
    /\ ~aborted
    /\ masterConn[s] = "open" /\ masterPeer[s] = "open"
    /\ masterPeer' = [masterPeer EXCEPT ![s] = "closed"]
    /\ UNCHANGED <<keyRegexp, hist, aborted, sr_pc, sw_pc, mr_pc, mw_pc, slaveConn,
                   masterConn, slavePeer, slaveStalled, slaveIn, masterIn,
                   slavechannel, masterchannel, sCommand, mCommand, rdb>>

(***************************************************************************)
(* slaveReader (lines 197-242).                                            *)
(***************************************************************************)
Consumed(in, rest) == Take(in, Len(in) - Len(rest))

\* One pass of the loop up to its channel send: readRedisCommand, then the
\* if-chain.  On an error the function returns and its deferred calls run:
\* close(masterchannel), close(slavechannel), conn.Close().  A nil command
\* with a nil error is dereferenced at line 222, and a panic in a goroutine
\* ends the process.
SlaveRead(s) ==
    /\ ~aborted
    /\ sr_pc[s] = "read"
    /\ LET r == readRedisCommand(slaveIn[s], slavePeer[s] = "closed")
       IN  /\ r.st # "wait"
           /\ IF r.st = "ok"
              THEN /\ sCommand' = [sCommand EXCEPT ![s] = r.cmd]
                   /\ slaveIn' = [slaveIn EXCEPT ![s] = r.rest]
                   /\ sr_pc' = [sr_pc EXCEPT ![s] =
                                   IF SlaveDecision(r.cmd) = "forward"
                                   THEN "send_master" ELSE "send_slave"]
                   /\ UNCHANGED <<aborted, slaveConn, slavechannel, masterchannel>>
              ELSE IF r.st = "err"
              THEN /\ sr_pc' = [sr_pc EXCEPT ![s] = "done"]
                   /\ masterchannel' = [masterchannel EXCEPT ![s].closed = TRUE]
                   /\ slavechannel' = [slavechannel EXCEPT ![s].closed = TRUE]
                   /\ slaveConn' = [slaveConn EXCEPT ![s] = "closed"]
                   /\ slaveIn' = [slaveIn EXCEPT ![s] = <<>>]
                   /\ UNCHANGED <<aborted, sCommand>>
              ELSE /\ aborted' = TRUE
                   /\ UNCHANGED <<sr_pc, slaveConn, slaveIn, slavechannel,
                                  masterchannel, sCommand>>
    /\ UNCHANGED <<keyRegexp, hist, sw_pc, mr_pc, mw_pc, masterConn, slavePeer,
                   masterPeer, slaveStalled, masterIn, mCommand, rdb>>

\* masterchannel <- command.raw (lines 224, 228, 232, 236); blocks while the
\* channel is full.
SlaveSendMaster(s) ==
    /\ ~aborted
    /\ sr_pc[s] = "send_master"
    /\ HasRoom(masterchannel[s])
    /\ masterchannel' = [masterchannel EXCEPT ![s] = Enqueue(@, sCommand[s].raw)]
    /\ sCommand' = [sCommand EXCEPT ![s] = NoCommand]
    /\ sr_pc' = [sr_pc EXCEPT ![s] = "read"]
    /\ hist' = Traced("masterEnq", s, sCommand[s].raw)
    /\ UNCHANGED <<keyRegexp, aborted, sw_pc, mr_pc, mw_pc, slaveConn, masterConn,
                   slavePeer, masterPeer, slaveStalled, slaveIn, masterIn,
                   slavechannel, mCommand, rdb>>

\* slavechannel <- []byte("+ERR unknown command\r\n") (line 239)
SlaveSendSlave(s) ==
    /\ ~aborted
    /\ sr_pc[s] = "send_slave"
    /\ HasRoom(slavechannel[s])
    /\ slavechannel' = [slavechannel EXCEPT ![s] = Enqueue(@, UnknownCommandReply)]
    /\ sCommand' = [sCommand EXCEPT ![s] = NoCommand]
    /\ sr_pc' = [sr_pc EXCEPT ![s] = "read"]
    /\ hist' = Traced("slaveEnq", s, Sent("slaveReader", UnknownCommandReply))
    /\ UNCHANGED <<keyRegexp, aborted, sw_pc, mr_pc, mw_pc, slaveConn, masterConn,
                   slavePeer, masterPeer, slaveStalled, slaveIn, masterIn,
                   masterchannel, mCommand, rdb>>

(***************************************************************************)
(* slaveWriter (lines 186-194).                                            *)
(***************************************************************************)
\* One pass of the range loop: receive a chunk and write it.  The write
\* fails on a socket the proxy closed, may fail once the replica closed, and
\* blocks while the replica does not read.  On a failure the function just
\* returns.  The loop ends when the channel is closed and drained.
SlaveWrite(s) ==
    /\ ~aborted
    /\ sw_pc[s] = "range"
    /\ \/ /\ slavechannel[s].buf # <<>>
          /\ slaveConn[s] = "open" /\ ~slaveStalled[s]
          /\ slavechannel' = [slavechannel EXCEPT ![s].buf = Tail(@)]
          /\ hist' = Traced("slaveOut", s, Head(slavechannel[s].buf))
          /\ UNCHANGED sw_pc
       \/ /\ slavechannel[s].buf # <<>>
          /\ slaveConn[s] = "closed" \/ slavePeer[s] = "closed"
          /\ slavechannel' = [slavechannel EXCEPT ![s].buf = Tail(@)]
          /\ sw_pc' = [sw_pc EXCEPT ![s] = "failed"]
          /\ UNCHANGED hist
       \/ /\ slavechannel[s].buf = <<>> /\ slavechannel[s].closed
          /\ sw_pc' = [sw_pc EXCEPT ![s] = "returned"]
          /\ UNCHANGED <<slavechannel, hist>>
    /\ UNCHANGED <<keyRegexp, aborted, sr_pc, mr_pc, mw_pc, slaveConn, masterConn,
                   slavePeer, masterPeer, slaveStalled, slaveIn, masterIn,
                   masterchannel, sCommand, mCommand, rdb>>

(***************************************************************************)
(* masterWriter (lines 121-131).                                           *)
(***************************************************************************)
\* As slaveWriter, but conn.Close() is deferred: it runs on both returns.
MasterWrite(s) ==
    /\ ~aborted
    /\ mw_pc[s] = "range"
    /\ \/ /\ masterchannel[s].buf # <<>>
          /\ masterConn[s] = "open"
          /\ masterchannel' = [masterchannel EXCEPT ![s].buf = Tail(@)]
          /\ hist' = Traced("masterOut", s, Head(masterchannel[s].buf))
          /\ UNCHANGED <<mw_pc, masterConn>>
       \/ /\ masterchannel[s].buf # <<>>
          /\ masterConn[s] = "closed" \/ masterPeer[s] = "closed"
          /\ masterchannel' = [masterchannel EXCEPT ![s].buf = Tail(@)]
          /\ mw_pc' = [mw_pc EXCEPT ![s] = "failed"]
          /\ masterConn' = [masterConn EXCEPT ![s] = "closed"]
          /\ UNCHANGED hist
       \/ /\ masterchannel[s].buf = <<>> /\ masterchannel[s].closed
          /\ mw_pc' = [mw_pc EXCEPT ![s] = "returned"]
          /\ masterConn' = [masterConn EXCEPT ![s] = "closed"]
          /\ UNCHANGED <<masterchannel, hist>>
    /\ UNCHANGED <<keyRegexp, aborted, sr_pc, sw_pc, mr_pc, slaveConn, slavePeer,
                   masterPeer, slaveStalled, slaveIn, masterIn, slavechannel,
                   sCommand, mCommand, rdb>>

(***************************************************************************)
(* masterConnection (lines 134-183).                                       *)
(***************************************************************************)
\* net.Dial (lines 135-144).  On success masterWriter is started; on failure
\* the function returns before anything is deferred.
Dial(s) ==
    /\ ~aborted
    /\ mr_pc[s] = "dial"
    /\ \/ /\ mr_pc' = [mr_pc EXCEPT ![s] = "read"]
          /\ mw_pc' = [mw_pc EXCEPT ![s] = "range"]
          /\ masterConn' = [masterConn EXCEPT ![s] = "open"]
       \/ /\ mr_pc' = [mr_pc EXCEPT ![s] = "dial_failed"]
          /\ UNCHANGED <<mw_pc, masterConn>>
    /\ UNCHANGED <<keyRegexp, hist, aborted, sr_pc, sw_pc, slaveConn, slavePeer,
                   masterPeer, slaveStalled, slaveIn, masterIn, slavechannel,
                   masterchannel, sCommand, mCommand, rdb>>

\* A return of masterConnection that leaves the socket open.
MasterReturnOpen(s, pc) ==
    /\ mr_pc' = [mr_pc EXCEPT ![s] = pc]
    /\ UNCHANGED <<masterConn, masterIn>>

\* The return of masterConnection after the dial: the deferred conn.Close().
MasterReturn(s, pc) ==
    /\ mr_pc' = [mr_pc EXCEPT ![s] = pc]
    /\ masterConn' = [masterConn EXCEPT ![s] = "closed"]
    /\ masterIn' = [masterIn EXCEPT ![s] = <<>>]

\* One pass of the loop up to its channel send (lines 147-180).  Once
\* masterWriter has closed the socket a read fails, unless the bytes are
\* already in the bufio.Reader.
MasterRead(s) ==
    /\ ~aborted
    /\ mr_pc[s] = "read"
    /\ \/ /\ masterConn[s] = "closed" /\ masterIn[s] # <<>>
          /\ MasterReturn(s, "read_failed")
          /\ UNCHANGED <<aborted, mCommand>>
       \/ LET r == readRedisCommand(masterIn[s],
                       masterPeer[s] = "closed" \/ masterConn[s] = "closed")
          IN  /\ r.st # "wait"
              /\ IF r.st = "ok"
                 THEN /\ masterIn' = [masterIn EXCEPT ![s] = r.rest]
                      /\ LET d == MasterDecision(r.cmd, keyRegexp)
                         IN  /\ mCommand' = [mCommand EXCEPT ![s] =
                                    IF d = "drop" THEN NoCommand ELSE r.cmd]
                             /\ mr_pc' = [mr_pc EXCEPT ![s] =
                                    IF d = "forward" THEN "send"
                                    ELSE IF d = "bulk" THEN "send_bulk"
                                    ELSE "read"]
                      /\ UNCHANGED <<aborted, masterConn>>
                 ELSE IF r.st = "err"
                 THEN /\ MasterReturn(s, "read_failed")
                      /\ UNCHANGED <<aborted, mCommand>>
                 ELSE /\ aborted' = TRUE
                      /\ UNCHANGED <<mr_pc, masterConn, masterIn, mCommand>>
    /\ UNCHANGED <<keyRegexp, hist, sr_pc, sw_pc, mw_pc, slaveConn, slavePeer,
                   masterPeer, slaveStalled, slaveIn, slavechannel, masterchannel,
                   sCommand, rdb>>

\* A send by masterConnection or by FilterRDB on slavechannel: it blocks
\* while the channel is full, and panics when slaveReader has closed it.
SlaveChannelSend(s, data, pc) ==
    IF slavechannel[s].closed
    THEN /\ aborted' = TRUE
         /\ UNCHANGED <<mr_pc, slavechannel, hist>>
    ELSE /\ HasRoom(slavechannel[s])
         /\ slavechannel' = [slavechannel EXCEPT ![s] = Enqueue(@, data)]
         /\ hist' = Traced("slaveEnq", s, Sent("masterConnection", data))
         /\ mr_pc' = [mr_pc EXCEPT ![s] = pc]
         /\ UNCHANGED aborted

\* slavechannel <- command.raw (lines 155, 159, 179), the end of the pass
MasterSend(s) ==
    /\ ~aborted
    /\ mr_pc[s] = "send"
    /\ SlaveChannelSend(s, mCommand[s].raw, "read")
    /\ mCommand' = [mCommand EXCEPT ![s] =
                       IF slavechannel[s].closed THEN @ ELSE NoCommand]
    /\ UNCHANGED <<keyRegexp, sr_pc, sw_pc, mw_pc, slaveConn, masterConn,
                   slavePeer, masterPeer, slaveStalled, slaveIn, masterIn,
                   masterchannel, sCommand, rdb>>

\* slavechannel <- command.raw, then the call of FilterRDB (lines 165-167)
MasterSendBulk(s) ==
    /\ ~aborted
    /\ mr_pc[s] = "send_bulk"
    /\ SlaveChannelSend(s, mCommand[s].raw, "rdb")
    /\ rdb' = [rdb EXCEPT ![s] =
                  IF slavechannel[s].closed THEN @
                  ELSE FilterState("header", mCommand[s].bulkSize, <<>>, <<>>)]
    /\ mCommand' = [mCommand EXCEPT ![s] =
                       IF slavechannel[s].closed THEN @ ELSE NoCommand]
    /\ UNCHANGED <<keyRegexp, sr_pc, sw_pc, mw_pc, slaveConn, masterConn,
                   slavePeer, masterPeer, slaveStalled, slaveIn, masterIn,
                   masterchannel, sCommand>>

\* FilterRDB reads its next item.  An error makes masterConnection return
\* (lines 168-171).
FilterRead(s) ==
    /\ ~aborted
    /\ mr_pc[s] = "rdb"
    /\ \/ /\ masterConn[s] = "closed" /\ masterIn[s] # <<>>
          /\ MasterReturn(s, "rdb_failed")
          /\ rdb' = [rdb EXCEPT ![s] = NoFilter]
       \/ LET r == FilterStep(masterIn[s],
                       masterPeer[s] = "closed" \/ masterConn[s] = "closed",
                       rdb[s], keyRegexp)
          IN  /\ r.st # "wait"
              /\ IF r.st = "ok"
                 THEN /\ masterIn' = [masterIn EXCEPT ![s] = Drop(@, r.n)]
                      /\ rdb' = [rdb EXCEPT ![s] =
                                    IF r.f.out = <<>> /\ r.f.phase = "end"
                                    THEN NoFilter ELSE r.f]
                      /\ mr_pc' = [mr_pc EXCEPT ![s] =
                                      IF r.f.out # <<>> THEN "rdb_send"
                                      ELSE IF r.f.phase = "end" THEN "read"
                                      ELSE "rdb"]
                      /\ UNCHANGED masterConn
                 ELSE /\ MasterReturn(s, "rdb_failed")
                      /\ rdb' = [rdb EXCEPT ![s] = NoFilter]
    /\ UNCHANGED <<keyRegexp, hist, aborted, sr_pc, sw_pc, mw_pc, slaveConn, slavePeer,
                   masterPeer, slaveStalled, slaveIn, slavechannel, masterchannel,
                   sCommand, mCommand>>

\* FilterRDB sends the chunk it holds; after the trailer it returns nil and
\* masterConnection reads commands again (line 173).
FilterSend(s) ==
    /\ ~aborted
    /\ mr_pc[s] = "rdb_send"
    /\ SlaveChannelSend(s, rdb[s].out,
                        IF rdb[s].phase = "end" THEN "read" ELSE "rdb")
    /\ rdb' = [rdb EXCEPT ![s] =
                  IF slavechannel[s].closed THEN @
                  ELSE IF @.phase = "end" THEN NoFilter
                  ELSE [@ EXCEPT !.out = <<>>]]
    /\ UNCHANGED <<keyRegexp, sr_pc, sw_pc, mw_pc, slaveConn, masterConn,
                   slavePeer, masterPeer, slaveStalled, slaveIn, masterIn,
                   masterchannel, sCommand, mCommand>>

(***************************************************************************)
(* What the peers put on the wire.                                         *)
(***************************************************************************)
RECURSIVE Dec(_)
Dec(n) == IF n < 10 THEN <<Digits[n + 1]>>
          ELSE Dec(n \div 10) \o <<Digits[(n % 10) + 1]>>

BulkArg(a) == <<"$">> \o Dec(Len(a)) \o CRLF \o a \o CRLF

RECURSIVE BulkArgs(_)
BulkArgs(args) ==
    IF args = <<>> THEN <<>> ELSE BulkArg(Head(args)) \o BulkArgs(Tail(args))

\* "*K\r\n" and K bulk arguments
Array(args) == <<"*">> \o Dec(Len(args)) \o CRLF \o BulkArgs(args)

SET == <<"S", "E", "T">>
GET == <<"G", "E", "T">>
MULTI == <<"M", "U", "L", "T", "I">>
KeyKa == <<"k", "a">>
KeyAb == <<"a", "b">>

ReplyOK == <<"+", "O", "K", CR, LF>>
EmptyReply == <<"+", CR, LF>>
ArrayPing == Array(<<PING>>)
ArraySync == Array(<<SYNC>>)
ArrayAck == Array(<<REPLCONF, ACK, <<"7">>>>)
ArrayCapa == Array(<<REPLCONF, <<"c", "a", "p", "a">>, <<"e", "o", "f">>>>)
ArrayGet == Array(<<GET, <<"k">>>>)
ArrayLowerPing == Array(<<<<"p", "i", "n", "g">>>>)
ArrayEmpty == Array(<<>>)
ArrayMulti == Array(<<MULTI>>)
ArraySetKa == Array(<<SET, KeyKa, <<"v">>>>)
ArraySetAb == Array(<<SET, KeyAb, <<"v">>>>)
InlinePing == PING \o CRLF
InlineSync == SYNC \o CRLF
BulkZero == <<"$", "0", CR, LF>>
BulkMinus == <<"$", "-", "1", CR, LF>>
BulkFive == <<"$", "5", CR, LF>>
\* malformed input
BadBulk == <<"$", "x", CR, LF>>
BadCount == <<"*", "-", "1", CR, LF>>
BadArgSize == <<"*", "1", CR, LF, "$", "-", "1", CR, LF>>
BadArgHeader == <<"*", "1", CR, LF>> \o PING \o CRLF
Truncated == <<"*", "1", CR, LF, "$", "4", CR, LF, "P", "I">>

\* A snapshot: header, SELECT_DB 0, an entry "ka" with an expiry in
\* milliseconds, an entry "ab", EOF; and its trailer.
RdbHeader == RdbMagic \o <<"0", "0", "0", "6">>
RdbExpiry == <<"FC", "11", "12", "13", "14", "15", "16", "17", "18">>
RdbEntryKa == <<"00", "02">> \o KeyKa \o <<"01", "v">>
RdbEntryAb == <<"01", "02">> \o KeyAb \o <<"02", "01", "x", "01", "y">>
RdbPayload ==
    RdbHeader \o <<"FE", "00">> \o RdbExpiry \o RdbEntryKa \o RdbEntryAb \o <<"FF">>
RdbTrailer == <<"C1", "C2", "C3", "C4", "C5", "C6", "C7", "C8">>

Snapshot(payload) == <<"$">> \o Dec(Len(payload)) \o CRLF \o payload \o RdbTrailer

GoodSnapshot == Snapshot(RdbPayload)
\* an opcode the filter does not know
BadSnapshot == Snapshot(RdbHeader \o <<"0F", "FF">>)

TinySnapshot == Snapshot(RdbHeader \o <<"FF">>)

(***************************************************************************)
(* Specifications.                                                         *)
(***************************************************************************)
\* The steps of the proxy in session s.
ProxyStep(s) ==
    \/ Accept(s)
    \/ SlaveRead(s)
    \/ SlaveSendMaster(s)
    \/ SlaveSendSlave(s)
    \/ SlaveWrite(s)
    \/ Dial(s)
    \/ MasterRead(s)
    \/ MasterSend(s)
    \/ MasterSendBulk(s)
    \/ FilterRead(s)
    \/ FilterSend(s)
    \/ MasterWrite(s)

\* The steps of the two peers of session s, which send segments of the menus
\* PM (the primary) and RM (the replica).
PeerStep(s, PM, RM) ==
    \/ \E seg \in RM : ReplicaSend(s, seg)
    \/ ReplicaClose(s)
    \/ \E seg \in PM : PrimarySend(s, seg)
    \/ PrimaryClose(s)

\* The proxy started with the expression "^k".
InitAnchored == Init /\ keyRegexp.anchored

\* One session; the primary sends every kind of frame, the replica a command
\* the proxy relays and one it does not.
PrimaryFrames ==
    {ReplyOK, EmptyReply, CRLF, <<LF>>, ArrayPing \o ArraySetKa, ArrayEmpty,
     ArrayMulti, ArraySetKa, ArraySetAb, TinySnapshot}

ReplicaFrames == {ArrayAck, ArrayGet}

Next == ProxyStep(1) \/ PeerStep(1, PrimaryFrames, ReplicaFrames)

Spec == Init /\ [][Next]_vars

\* One session; the replica sends every kind of frame.
ReplicaMenu ==
    {ReplyOK, CRLF, ArrayPing, ArraySync, ArrayAck, ArrayCapa, ArrayGet,
     ArrayGet \o ArraySync, ArrayLowerPing, ArrayEmpty, InlineSync, BulkZero,
     BulkFive, BadArgSize, BadArgHeader, Truncated}

ReplicaNext == ProxyStep(1) \/ PeerStep(1, {ReplyOK, TinySnapshot}, ReplicaMenu)

ReplicaSpec == InitAnchored /\ [][ReplicaNext]_vars

\* Two sessions.  The peers of session 1 send, fail and close; session 2 is a
\* healthy session whose replica keeps sending and whose peers never close.
IsoNext ==
    \/ ProxyStep(1)
    \/ PeerStep(1, {ArraySetKa, TinySnapshot}, {ArraySync})
    \/ ProxyStep(2)
    \/ ReplicaSend(2, ArrayGet)

IsoSpec == InitAnchored /\ [][IsoNext]_vars

\* One session, and the scheduling the liveness claims rest on.  The replica
\* may stop reading.  Every goroutine that can take a step eventually takes
\* it, and a primary that is connected and open keeps sending.
LiveNext ==
    \/ ProxyStep(1)
    \/ PeerStep(1, {ArraySetKa, TinySnapshot}, {ArraySync, ArrayGet})
    \/ ReplicaStall(1)

\* ENABLED SlaveRead(s) and ENABLED MasterRead(s), as state predicates: the
\* call of readRedisCommand does not block.  Every step of either action
\* changes vars.
SlaveReadReady(s) ==
    /\ ~aborted
    /\ sr_pc[s] = "read"
    /\ readRedisCommand(slaveIn[s], slavePeer[s] = "closed").st # "wait"

MasterReadReady(s) ==
    /\ ~aborted
    /\ mr_pc[s] = "read"
    /\ \/ masterConn[s] = "closed" /\ masterIn[s] # <<>>
       \/ readRedisCommand(masterIn[s],
              masterPeer[s] = "closed" \/ masterConn[s] = "closed").st # "wait"

\* Weak fairness of every goroutine's step; for the two reading steps it is
\* written out with the predicates above.
Fairness ==
    /\ []<>(~SlaveReadReady(1)) \/ []<><<SlaveRead(1)>>_vars
    /\ WF_vars(SlaveSendMaster(1))
    /\ WF_vars(SlaveSendSlave(1))
    /\ WF_vars(SlaveWrite(1))
    /\ WF_vars(Dial(1))
    /\ []<>(~MasterReadReady(1)) \/ []<><<MasterRead(1)>>_vars
    /\ WF_vars(MasterSend(1))
    /\ WF_vars(MasterSendBulk(1))
    /\ WF_vars(FilterRead(1))
    /\ WF_vars(FilterSend(1))
    /\ WF_vars(MasterWrite(1))
    /\ WF_vars(\E seg \in {ArraySetKa, TinySnapshot} : PrimarySend(1, seg))

LiveSpec == InitAnchored /\ [][LiveNext]_vars /\ Fairness

\* One session in which the primary sends snapshots, good and bad, and bulk
\* headers of every sign; the replica sends a command the proxy relays and
\* one it refuses.
SnapshotFrames == {GoodSnapshot, BadSnapshot, BulkZero, BulkMinus, ArraySetKa}

SnapshotNext == ProxyStep(1) \/ PeerStep(1, SnapshotFrames, {ArrayAck, ArrayGet})

SnapshotSpec == Init /\ [][SnapshotNext]_vars

\* One session under observation: each peer sends at most MaxTraced segments,
\* the primary only frames that the expression "^k" lets through.
TracedPrimary == {ArrayMulti, ArraySetKa, TinySnapshot}

TracedReplica == {ArrayAck, ArrayGet}

TraceNext ==
    \/ ProxyStep(1)
    \/ \E seg \in TracedPrimary :
           Len(hist.primarySent[1]) < MaxTraced /\ PrimarySend(1, seg)
    \/ \E seg \in TracedReplica :
           Len(hist.replicaSent[1]) < MaxTraced /\ ReplicaSend(1, seg)
    \/ ReplicaClose(1)
    \/ PrimaryClose(1)

\* The proxy started with the expression "^k", under observation.
InitTraced == Start(TRUE) /\ keyRegexp.anchored

TraceSpec == InitTraced /\ [][TraceNext]_vars

(***************************************************************************)
(* Steps the claims speak of.                                              *)
(***************************************************************************)
\* masterConnection's readRedisCommand returned a command: it consumed bytes
\* and went on to the if-chain.
MasterReads(s) ==
    /\ mr_pc[s] = "read" /\ mr_pc'[s] \in {"read", "send", "send_bulk"}
    /\ Len(masterIn'[s]) < Len(masterIn[s])

MasterWire(s) == Consumed(masterIn[s], masterIn'[s])

\* slaveReader's readRedisCommand returned a command.
SlaveReads(s) ==
    /\ sr_pc[s] = "read" /\ sr_pc'[s] \in {"send_master", "send_slave"}
    /\ Len(slaveIn'[s]) < Len(slaveIn[s])

SlaveWire(s) == Consumed(slaveIn[s], slaveIn'[s])

\* masterConnection completed the send of its command.
MasterSent(s) == mr_pc[s] \in {"send", "send_bulk"} /\ mr_pc'[s] \in {"read", "rdb"}

\* slaveReader completed a send.
SlaveSent(s) == sr_pc[s] \in {"send_master", "send_slave"} /\ sr_pc'[s] = "read"

\* A completed send of masterConnection puts command.raw, once, at the end of
\* slavechannel.
MasterSendsRaw(s) ==
    MasterSent(s) =>
        slavechannel'[s].buf = Append(slavechannel[s].buf, mCommand[s].raw)

(***************************************************************************)
(* C1.  Command-stream key filter: an array frame from the primary with at *)
(* least 2 arguments is enqueued to slavechannel, as its raw bytes, if and *)
(* only if the key expression matches its second argument; when it does    *)
(* not, nothing is enqueued for the frame and masterConnection reads the   *)
(* next frame.                                                             *)
(***************************************************************************)
\* The frames with a key that the primary sends, and their keys.
KeyedFrames == {[wire |-> ArraySetKa, key |-> KeyKa],
                [wire |-> ArraySetAb, key |-> KeyAb]}

\* What "matches" means for the two expressions, written out.
KeyMatches(key) ==
    IF keyRegexp.anchored THEN key = KeyKa ELSE key = KeyAb

C1_KeyFilter ==
    [][\A s \in Sessions :
        /\ \A f \in KeyedFrames :
             (MasterReads(s) /\ MasterWire(s) = f.wire) =>
                 IF KeyMatches(f.key)
                 THEN mr_pc'[s] = "send" /\ mCommand'[s].raw = f.wire
                 ELSE mr_pc'[s] = "read" /\ slavechannel'[s] = slavechannel[s]
        /\ MasterSendsRaw(s)]_vars

\* A frame whose key matches has been enqueued.
C1_Witness ==
    \E s \in Sessions : keyRegexp.anchored /\ slavechannel[s].buf = <<ArraySetKa>>

(***************************************************************************)
(* C4.  Master-side passthrough: an empty inline line, a simple reply and  *)
(* an array with fewer than 2 arguments from the primary are each enqueued *)
(* to slavechannel exactly once, as their raw bytes, whatever the key      *)
(* expression is.                                                          *)
(***************************************************************************)
PassthroughFrames ==
    {CRLF, <<LF>>, ReplyOK, EmptyReply, ArrayPing, ArrayEmpty, ArrayMulti}

C4_Passthrough ==
    [][\A s \in Sessions :
        /\ (MasterReads(s) /\ MasterWire(s) \in PassthroughFrames) =>
               mr_pc'[s] = "send" /\ mCommand'[s].raw = MasterWire(s)
        /\ MasterSendsRaw(s)]_vars

\* A keyless command has been enqueued under an expression it does not match.
C4_Witness == \E s \in Sessions : slavechannel[s].buf = <<ArrayMulti>>

(***************************************************************************)
(* C5.  Forwarding fidelity: the chunk a reader enqueues for a frame it    *)
(* forwards is exactly the bytes readRedisCommand consumed for that frame, *)
(* in wire order.                                                          *)
(***************************************************************************)
C5_Fidelity ==
    [][\A s \in Sessions :
        /\ (MasterReads(s) /\ mr_pc'[s] \in {"send", "send_bulk"}) =>
               mCommand'[s].raw = MasterWire(s)
        /\ MasterSendsRaw(s)
        /\ (SlaveReads(s) /\ sr_pc'[s] = "send_master") =>
               sCommand'[s].raw = SlaveWire(s)
        /\ (sr_pc[s] = "send_master" /\ SlaveSent(s)) =>
               masterchannel'[s].buf =
                   Append(masterchannel[s].buf, sCommand[s].raw)]_vars

\* A three-argument array has been forwarded in each direction.
C5_Witness ==
    \E s \in Sessions :
        /\ masterchannel[s].buf = <<ArrayAck>>
        /\ slavechannel[s].buf # <<>> /\ Head(slavechannel[s].buf) \in {ArraySetKa, ArraySetAb}

(***************************************************************************)
(* C2.  Replica misuse reply: for a frame from the replica that the        *)
(* slave-side classifier does not admit, slaveReader enqueues exactly the  *)
(* bytes "-ERR unknown command\r\n" to slavechannel, enqueues nothing to   *)
(* masterchannel, and goes back to reading.                                *)
(***************************************************************************)
\* The reply the specification names.
ErrorReply ==
    <<"-", "E", "R", "R", " ", "u", "n", "k", "n", "o", "w", "n", " ",
      "c", "o", "m", "m", "a", "n", "d", CR, LF>>

\* Frames of the replica that no row of the classifier admits.
RefusedFrames == {ArrayGet, ArrayCapa, ArrayEmpty, BulkFive}

C2_MisuseReply ==
    [][\A s \in Sessions :
        /\ (SlaveReads(s) /\ SlaveWire(s) \in RefusedFrames) =>
               sr_pc'[s] = "send_slave" /\ masterchannel'[s] = masterchannel[s]
        /\ (sr_pc[s] = "send_slave" /\ SlaveSent(s)) =>
               /\ slavechannel'[s].buf = Append(slavechannel[s].buf, ErrorReply)
               /\ masterchannel'[s] = masterchannel[s]]_vars

(***************************************************************************)
(* C3.  Nothing leaks to the primary: every chunk in masterchannel is the  *)
(* raw bytes of an empty inline line, a simple reply, array([PING]),       *)
(* array([SYNC]) or a 3-argument array([REPLCONF, ACK, offset]).           *)
(***************************************************************************)
\* The admitted frames among those the replica sends.
AdmittedChunks == {CRLF, <<LF>>, ReplyOK, ArrayPing, ArraySync, ArrayAck}

C3_NothingLeaks ==
    \A s \in Sessions :
        \A i \in 1..Len(masterchannel[s].buf) :
            masterchannel[s].buf[i] \in AdmittedChunks

(***************************************************************************)
(* C9.  Writer failure: a writer whose write failed has closed its socket, *)
(* masterWriter and slaveWriter alike.                                     *)
(***************************************************************************)
C9_WriterClosesSocket ==
    \A s \in Sessions :
        /\ mw_pc[s] = "failed" => masterConn[s] = "closed"
        /\ sw_pc[s] = "failed" => slaveConn[s] = "closed"

(***************************************************************************)
(* C6.  Session isolation: while a session is healthy (accepted, both of   *)
(* its peers open, its tasks running), nothing that happens in another     *)
(* session stops it; in particular the process has not aborted.            *)
(***************************************************************************)
MasterExited(s) == mr_pc[s] \in {"dial_failed", "read_failed", "rdb_failed"}

Healthy(s) ==
    /\ slaveConn[s] = "open" /\ slavePeer[s] = "open" /\ masterPeer[s] = "open"
    /\ sr_pc[s] \in {"read", "send_master", "send_slave"}
    /\ sw_pc[s] = "range"
    /\ ~MasterExited(s)

C6_Isolation ==
    \A s \in Sessions : \A t \in Sessions \ {s} :
        (Healthy(t) /\ ~Healthy(s) /\ sr_pc[s] # "idle") => ~aborted

(***************************************************************************)
(* C7.  Teardown from the primary side: if masterConnection has exited     *)
(* while the replica connection is open, then eventually the replica       *)
(* socket is closed, both channels are closed, and slaveReader and         *)
(* slaveWriter have stopped.                                               *)
(***************************************************************************)
SlaveSideDown(s) ==
    /\ slaveConn[s] = "closed"
    /\ slavechannel[s].closed /\ masterchannel[s].closed
    /\ sr_pc[s] = "done"
    /\ sw_pc[s] \in {"returned", "failed"}

C7_TeardownFromPrimary ==
    \A s \in Sessions :
        (MasterExited(s) /\ slaveConn[s] = "open") ~> SlaveSideDown(s)

(***************************************************************************)
(* C8.  Teardown from the replica side: if slaveReader has exited, then    *)
(* eventually both channels are closed, both writers have exited, the      *)
(* primary socket is closed and masterConnection has stopped.              *)
(***************************************************************************)
MasterSideDown(s) ==
    /\ masterConn[s] # "open"
    /\ mw_pc[s] \in {"idle", "returned", "failed"}
    /\ MasterExited(s)

C8_TeardownFromReplica ==
    \A s \in Sessions :
        (sr_pc[s] = "done") ~> (SlaveSideDown(s) /\ MasterSideDown(s))

(***************************************************************************)
(* C10.  Back-pressure: once the replica has stopped reading, and as long  *)
(* as both peers stay connected, masterConnection eventually blocks on a   *)
(* send to the full slavechannel, and while it is blocked there it reads   *)
(* nothing from the primary socket and enqueues nothing.                   *)
(***************************************************************************)
Live(s) ==
    /\ ~aborted
    /\ slaveConn[s] = "open" /\ slavePeer[s] = "open"
    /\ masterConn[s] = "open" /\ masterPeer[s] = "open"

MasterBlocked(s) ==
    /\ mr_pc[s] \in {"send", "send_bulk", "rdb_send"}
    /\ Len(slavechannel[s].buf) >= channelBuffer

C10_BackPressure ==
    /\ \A s \in Sessions :
         (slaveStalled[s] /\ Live(s)) ~> (MasterBlocked(s) \/ ~Live(s))
    /\ [][\A s \in Sessions :
            (slaveStalled[s] /\ Live(s) /\ MasterBlocked(s)) =>
                /\ mr_pc'[s] = mr_pc[s]
                /\ masterIn'[s] = masterIn[s]
                /\ slavechannel'[s] = slavechannel[s]]_vars

\* masterConnection holds a frame it cannot send: the replica has stopped
\* reading and slavechannel is full.
C10_Witness ==
    \E s \in Sessions : slaveStalled[s] /\ Live(s) /\ MasterBlocked(s)

(***************************************************************************)
(* C11.  Bounded queues: masterchannel and slavechannel never hold more    *)
(* than channelBuffer chunks, and no step adds a chunk to a channel that   *)
(* is full.                                                                *)
(***************************************************************************)
IsFull(ch) == Len(ch.buf) >= channelBuffer

C11_BoundedQueues ==
    /\ [](\A s \in Sessions :
            /\ Len(masterchannel[s].buf) <= channelBuffer
            /\ Len(slavechannel[s].buf) <= channelBuffer)
    /\ [][\A s \in Sessions :
            /\ IsFull(masterchannel[s]) =>
                   Len(masterchannel'[s].buf) <= Len(masterchannel[s].buf)
            /\ IsFull(slavechannel[s]) =>
                   Len(slavechannel'[s].buf) <= Len(slavechannel[s].buf)]_vars

\* Both producers of slavechannel hold a chunk while the channel is full, and
\* slaveReader has filled masterchannel before.
C11_Witness ==
    \E s \in Sessions :
        /\ IsFull(slavechannel[s]) /\ mr_pc[s] = "send"
        /\ sr_pc[s] = "send_slave"

(***************************************************************************)
(* C12.  FIFO ordering: at every moment the chunks written to the replica  *)
(* socket are a prefix of the chunks sent on slavechannel, in the order of *)
(* the sends; the chunks of masterConnection among them carry the bytes of *)
(* the primary in the order they arrived; and the chunks written to the    *)
(* primary socket are a prefix of the chunks slaveReader sent on           *)
(* masterchannel.                                                          *)
(***************************************************************************)
IsPrefix(p, q) == Len(p) <= Len(q) /\ SubSeq(q, 1, Len(p)) = p

RECURSIVE Flatten(_)
Flatten(chunks) ==
    IF chunks = <<>> THEN <<>> ELSE Head(chunks) \o Flatten(Tail(chunks))

Data(sends) == [i \in 1..Len(sends) |-> sends[i].data]

IsByMaster(e) == e.by = "masterConnection"

SnapshotEntries == {[bytes |-> RdbEntryKa, key |-> KeyKa],
                    [bytes |-> RdbEntryAb, key |-> KeyAb]}

\* FilterRDB read a record: it consumed bytes and has not failed.
FilterReads(s) ==
    /\ mr_pc[s] = "rdb" /\ mr_pc'[s] \in {"rdb", "rdb_send"}
    /\ Len(masterIn'[s]) < Len(masterIn[s])

C13_PredicateHonesty ==
    [][\A s \in Sessions :
        /\ \A e \in SnapshotEntries :
             (FilterReads(s) /\ MasterWire(s) = e.bytes) =>
                 /\ rdb'[s].expiry = <<>>
                 /\ IF KeyMatches(e.key)
                    THEN /\ mr_pc'[s] = "rdb_send"
                         /\ rdb'[s].out = rdb[s].expiry \o e.bytes
                    ELSE /\ mr_pc'[s] = "rdb"
                         /\ rdb'[s].out = <<>>
        /\ (FilterReads(s) /\ MasterWire(s) = RdbExpiry) =>
               mr_pc'[s] = "rdb" /\ rdb'[s].out = <<>>
        /\ (mr_pc[s] = "rdb_send" /\ mr_pc'[s] # "rdb_send") =>
               slavechannel'[s].buf = Append(slavechannel[s].buf, rdb[s].out)
        /\ FilterReads(s) => slavechannel'[s] = slavechannel[s]]_vars

\* An entry with its expiry has been sent under "^k", or the other entry,
\* which has none, under "b", after the first was dropped.
C13_Witness ==
    \E s \in Sessions :
        \/ keyRegexp.anchored /\ slavechannel[s].buf = <<RdbExpiry \o RdbEntryKa>>
        \/ ~keyRegexp.anchored /\ slavechannel[s].buf = <<RdbEntryAb>>

(***************************************************************************)
(* C14.  readRedisCommand is total: on the bytes a reader has before it,   *)
(* the call returns a command or an error (or waits for more bytes), never *)
(* a nil command together with a nil error.                                *)
(***************************************************************************)
\* The result of the call slaveReader, and masterConnection, would make now.
SlaveResult(s) == readRedisCommand(slaveIn[s], slavePeer[s] = "closed")

MasterResult(s) ==
    readRedisCommand(masterIn[s],
                     masterPeer[s] = "closed" \/ masterConn[s] = "closed")

C14_ReadFrameTotal ==
    \A s \in Sessions :
        SlaveResult(s).st # "nil" /\ MasterResult(s).st # "nil"

(***************************************************************************)
(* C15.  Malformed lengths are errors: on a negative array count or a      *)
(* negative argument length readRedisCommand returns an error; it does not *)
(* fail in any other way.                                                  *)
(***************************************************************************)
C15_NegativeLengthIsError ==
    \A s \in Sessions :
        SlaveResult(s).st # "panic" /\ MasterResult(s).st # "panic"

(***************************************************************************)
(* C16.  Bulk mode entry: for every bulk header "$N" read from the         *)
(* primary, whatever N is, masterConnection sends the header's raw bytes   *)
(* on slavechannel and then runs the snapshot filter, before it reads any  *)
(* further command.                                                        *)
(***************************************************************************)
C16_BulkModeEntry ==
    [][\A s \in Sessions :
        /\ (MasterReads(s) /\ HasPrefix(MasterWire(s), "$")) =>
               mr_pc'[s] = "send_bulk" /\ mCommand'[s].raw = MasterWire(s)
        /\ (mr_pc[s] = "send_bulk" /\ MasterSent(s)) =>
               /\ mr_pc'[s] = "rdb"
               /\ slavechannel'[s].buf =
                      Append(slavechannel[s].buf, mCommand[s].raw)]_vars

(***************************************************************************)
(* C17.  No recovery after a snapshot error: when the snapshot filter      *)
(* returns an error masterConnection stops in that step, sending nothing;  *)
(* from then on the primary socket is closed, masterConnection stays       *)
(* stopped and nothing but slaveReader's own reply is sent on              *)
(* slavechannel.                                                           *)
(***************************************************************************)
C17_NoRecovery ==
    /\ [](\A s \in Sessions :
            mr_pc[s] = "rdb_failed" => masterConn[s] = "closed")
    /\ [][\A s \in Sessions :
            /\ (mr_pc[s] \in {"rdb", "rdb_send"} /\ mr_pc'[s] = "rdb_failed") =>
                   mr_pc[s] = "rdb" /\ slavechannel'[s] = slavechannel[s]
            /\ mr_pc[s] = "rdb_failed" =>
                   /\ mr_pc'[s] = "rdb_failed"
                   /\ masterIn'[s] = masterIn[s]
                   /\ Len(slavechannel'[s].buf) > Len(slavechannel[s].buf) =>
                          slavechannel'[s].buf =
                              Append(slavechannel[s].buf, UnknownCommandReply)]_vars

\* The filter has failed on a snapshot it cannot decode, with both peers
\* still connected, and the replica has been answered since.
C17_Witness ==
    \E s \in Sessions :
        /\ mr_pc[s] = "rdb_failed"
        /\ masterPeer[s] = "open" /\ slavePeer[s] = "open"
        /\ slavechannel[s].buf = <<UnknownCommandReply>>

(***************************************************************************)
(* C18.  Case-insensitive verbs: an array from the replica whose verb is   *)
(* PING in another letter case is forwarded to masterchannel like PING.    *)
(***************************************************************************)
C18_CaseInsensitiveVerbs ==
    [][\A s \in Sessions :
        (SlaveReads(s) /\ SlaveWire(s) = ArrayLowerPing) =>
            sr_pc'[s] = "send_master" /\ sCommand'[s].raw = ArrayLowerPing]_vars

(***************************************************************************)
(* C19.  Snapshot contiguity: from the send of a bulk header until the     *)
(* filter has sent the trailer, every chunk sent on slavechannel is the    *)
(* chunk the filter holds.                                                 *)
(***************************************************************************)
InSnapshot(s) == mr_pc[s] \in {"rdb", "rdb_send"}

C19_SnapshotContiguity ==
    [][\A s \in Sessions :
        (InSnapshot(s) /\ Len(slavechannel'[s].buf) > Len(slavechannel[s].buf)) =>
            /\ mr_pc[s] = "rdb_send"
            /\ slavechannel'[s].buf = Append(slavechannel[s].buf, rdb[s].out)]_vars

(***************************************************************************)
(* C20.  No send on a closed queue: masterConnection never executes a send *)
(* on slavechannel after slaveReader has closed it.                        *)
(***************************************************************************)
C20_NoSendOnClosed ==
    \A s \in Sessions :
        ~(/\ slavechannel[s].closed
          /\ mr_pc[s] \in {"send", "send_bulk", "rdb_send"}
          /\ aborted)

====
